---- MODULE Spec2Model ----
(***************************************************************************)
(* import_wallet.py: main() prints a status line, expands                  *)
(* "~/.dig/wallets/test-wallet", makes that directory with                 *)
(* os.makedirs(..., exist_ok=True), writes MNEMONIC to mnemonic.txt in it  *)
(* through open(..., "w"), and prints two more status lines.               *)
(*                                                                         *)
(* The model follows main() system call by system call.  The file system   *)
(* is a function from paths (sequences of path components) to entries.     *)
(* File contents and MNEMONIC are sequences of tokens, one token per word  *)
(* of the phrase (a word together with the blank that precedes it).  A     *)
(* write(2) may be short: it stops at one of the NPieces - 1 cuts of the   *)
(* phrase or takes all that is left.                                       *)
(*                                                                         *)
(* Procs are two invocations of the script.  Under Spec the second one     *)
(* starts when the first has terminated (the script run twice in           *)
(* succession); under SpecConc the two interleave freely.                  *)
(***************************************************************************)
EXTENDS Naturals, Sequences, FiniteSets

VARIABLES
  homeEnv,     \* "set": HOME (or the password database) names the home directory; "unset": neither does
  ro,          \* paths without write permission (a directory: no new entries; a file: no open for writing)
  fs,          \* the file system: path -> entry
  pc,          \* per invocation: the statement of main() it is about to execute
  wallet_dir,  \* per invocation: the local variable wallet_dir
  lvl,         \* per invocation: the recursion level of os.makedirs (length of its name argument)
  oserr,       \* per invocation: the OSError that mkdir raised and makedirs is handling
  off,         \* per invocation: the offset of its file descriptor
  buf,         \* per invocation: the data buffered by f.write and not yet written
  out,         \* per invocation: its standard output, a sequence of lines
  err,         \* per invocation: the uncaught exception that ended it ("" if none)
  exit,        \* per invocation: << >> while it runs, then <<status>>, its exit status
  fs0,         \* history: the file system before the first invocation
  snap         \* history: per invocation, the file system at the moment it terminated

vars == <<homeEnv, ro, fs, pc, wallet_dir, lvl, oserr, off, buf, out, err, exit, fs0, snap>>

\* ------------------------------------------------------------------ constants

\* How many tokens longer than MNEMONIC a pre-existing mnemonic.txt may be.
MaxExtra == 1

\* The number of pieces a flush of the phrase may be written in.
NPieces == 3

Procs == {1, 2}

MNEMONIC ==
  << "provide", "verb", "sheriff", "tragic", "arrow", "bless", "still", "empty",
     "gesture", "senior", "pause", "tobacco", "creek", "giggle", "pair", "crisp",
     "glow", "divide", "boost", "endless", "elite", "fiction", "cup", "arena" >>

\* The argument of os.path.expanduser, as path components.
WALLET_PATH == << "~", ".dig", "wallets", "test-wallet" >>

MarkerName_other == "notes.txt"

\* The file name joined to wallet_dir.
MarkerName == "mnemonic.txt"

OpenMode_append == "a"

\* The mode argument of open().
OpenMode == "w"

exist_ok_false == FALSE

\* The exist_ok argument of os.makedirs.
exist_ok == TRUE

\* What HOME resolves to when it can be resolved.
HomeDir == << "home" >>

\* ------------------------------------------------------------------ paths and entries

Root == << >>

Parent(p) == SubSeq(p, 1, Len(p) - 1)

Prefixes(t) == { SubSeq(t, 1, i) : i \in 1..Len(t) }

\* A file that is not the program's, next to the directories it walks through.
SiblingName == "notes.txt"

\* The directories the program may walk through, with and without a home directory.
Chains == Prefixes(HomeDir \o Tail(WALLET_PATH)) \cup Prefixes(WALLET_PATH)

\* The paths of the file system: those directories and, in each, two file names.
Paths == Chains \cup { q \o <<n>> : q \in Chains, n \in {"mnemonic.txt", SiblingName} }

None == [kind |-> "none", data |-> << >>]

Dir == [kind |-> "dir", data |-> << >>]

File(d) == [kind |-> "file", data |-> d]

Exists(f, p) == p = Root \/ (p \in Paths /\ f[p].kind # "none")

IsDir(f, p) == p = Root \/ (p \in Paths /\ f[p].kind = "dir")

IsFile(f, p) == p \in Paths /\ f[p].kind = "file"

\* ------------------------------------------------------------------ library and system calls

\* os.path.expanduser: a leading "~" is replaced by the home directory; when the
\* home directory cannot be determined the path is returned unchanged.
expanduser(path, env) ==
  IF Len(path) > 0 /\ Head(path) = "~" /\ env = "set"
    THEN HomeDir \o Tail(path)
    ELSE path

\* mkdir(2): the errors the call may raise on name; {} when it succeeds.  When
\* the name exists in a directory without write permission the system may
\* report either error.
MkdirErrors(f, r, name) ==
  IF ~Exists(f, Parent(name)) THEN {"FileNotFoundError"}
  ELSE IF ~IsDir(f, Parent(name)) THEN {"NotADirectoryError"}
  ELSE IF Exists(f, name)
    THEN {"FileExistsError"} \cup (IF Parent(name) \in r THEN {"PermissionError"} ELSE {})
  ELSE IF Parent(name) \in r THEN {"PermissionError"}
  ELSE {}

\* open(2) for writing with O_CREAT: the error the call raises, "" when it succeeds.
OpenError(f, r, path) ==
  IF ~Exists(f, Parent(path)) THEN "FileNotFoundError"
  ELSE IF ~IsDir(f, Parent(path)) THEN "NotADirectoryError"
  ELSE IF IsDir(f, path) THEN "IsADirectoryError"
  ELSE IF IsFile(f, path) /\ path \in r THEN "PermissionError"
  ELSE IF ~Exists(f, path) /\ Parent(path) \in r THEN "PermissionError"
  ELSE ""

\* The content of the file once open(path, mode) has succeeded: "w" is
\* O_TRUNC, "a" keeps what is there.
OpenedData(f, path, mode) ==
  IF mode = "w" \/ ~IsFile(f, path) THEN << >> ELSE f[path].data

\* A byte of a hole: what a file reads as where nothing was written.
NUL == "\\0"

Max(a, b) == IF a >= b THEN a ELSE b

\* write(2) of chunk at offset o into a file holding data.
WriteAt(data, o, chunk) ==
  [ i \in 1..Max(Len(data), o + Len(chunk)) |->
      IF i > o /\ i <= o + Len(chunk) THEN chunk[i - o]
      ELSE IF i <= Len(data) THEN data[i]
      ELSE NUL ]

\* Where write(2) puts the data: O_APPEND writes at the end of the file.
WriteOffset(data, o, mode) == IF mode = "a" THEN Len(data) ELSE o

\* The offsets in data at which a short write(2) may stop, and its end.
Cuts(data) == { (j * Len(data)) \div NPieces : j \in 1..NPieces }

\* Text-mode write: "\n" is translated to the line separator (itself on
\* POSIX), every other token is encoded as it is.
TextEncode(s) == [ i \in 1..Len(s) |-> IF s[i] = "\n" THEN "\n" ELSE s[i] ]

print_nothing(o, line) == o

\* print(): one more line on standard output.
print(o, line) == Append(o, line)

Line1 == [text |-> "Importing wallet with provided mnemonic...", path |-> << >>]

Line2(dir) == [text |-> "Created wallet marker at: ", path |-> dir]

Line3 == [text |-> "Mnemonic saved for testing purposes", path |-> << >>]

\* ------------------------------------------------------------------ initial states

Junk(n) == [ i \in 1..n |-> "old" ]

\* What mnemonic.txt may hold beforehand: nothing, other content, the
\* phrase itself, the phrase and more, other content longer than the phrase.
OldContents ==
  { << >>, Junk(1), MNEMONIC, Junk(Len(MNEMONIC) + MaxExtra) }
    \cup { MNEMONIC \o Junk(k) : k \in 1..MaxExtra }

\* The file system in which the first depth components of target are
\* directories, the next one is a file if blocked, mnemonic.txt is marker and
\* the directories at the levels of sibs hold a file of somebody else.
MkFs(target, depth, blocked, marker, sibs) ==
  [ p \in Paths |->
      IF p \in Prefixes(target)
        THEN IF Len(p) <= depth THEN Dir
             ELSE IF Len(p) = depth + 1 /\ blocked THEN File(<<"blocker">>)
             ELSE None
      ELSE IF p = target \o <<"mnemonic.txt">> THEN marker
      ELSE IF Parent(p) \in Prefixes(target) /\ p[Len(p)] = SiblingName
              /\ Len(Parent(p)) \in sibs
        THEN File(<<"keep">>)
      ELSE None ]

Init ==
  /\ homeEnv \in {"set", "unset"}
  /\ \E depth \in 0..Len(WALLET_PATH), blocked \in BOOLEAN,
        marker \in {None, Dir} \cup { File(d) : d \in OldContents },
        siblings \in BOOLEAN :
       LET target == expanduser(WALLET_PATH, homeEnv) IN
       /\ blocked => depth < Len(target)
       /\ marker # None => depth = Len(target)
       /\ siblings => depth > 0
       /\ fs = MkFs(target, depth, blocked, marker, IF siblings THEN 1..depth ELSE {})
  /\ ro \in { {} } \cup { {p} : p \in { q \in Paths : fs[q].kind # "none"
                                          /\ q[Len(q)] # SiblingName } }
  /\ fs0 = fs
  /\ pc = [p \in Procs |-> "start"]
  /\ wallet_dir = [p \in Procs |-> << >>]
  /\ lvl = [p \in Procs |-> 0]
  /\ oserr = [p \in Procs |-> ""]
  /\ off = [p \in Procs |-> 0]
  /\ buf = [p \in Procs |-> << >>]
  /\ out = [p \in Procs |-> << >>]
  /\ err = [p \in Procs |-> ""]
  /\ exit = [p \in Procs |-> << >>]
  /\ snap = [p \in Procs |-> fs]

\* ------------------------------------------------------------------ main()

Final == {"done", "error"}

\* An exception nobody catches: the interpreter prints the traceback on
\* standard error and exits with status 1.
Uncaught(p, e) ==
  /\ pc' = [pc EXCEPT ![p] = "error"]
  /\ err' = [err EXCEPT ![p] = e]
  /\ exit' = [exit EXCEPT ![p] = <<1>>]

\* print("Importing wallet with provided mnemonic...")
Print1(p) ==
  /\ pc[p] = "start"
  /\ out' = [out EXCEPT ![p] = print(@, Line1)]
  /\ pc' = [pc EXCEPT ![p] = "expand"]
  /\ UNCHANGED <<homeEnv, ro, fs, wallet_dir, lvl, oserr, off, buf, err, exit, fs0, snap>>

\* wallet_dir = os.path.expanduser("~/.dig/wallets/test-wallet"), and the
\* entry into os.makedirs(wallet_dir, exist_ok=True).
Expand(p) ==
  /\ pc[p] = "expand"
  /\ wallet_dir' = [wallet_dir EXCEPT ![p] = expanduser(WALLET_PATH, homeEnv)]
  /\ lvl' = [lvl EXCEPT ![p] = Len(wallet_dir'[p])]
  /\ pc' = [pc EXCEPT ![p] = "probe"]
  /\ UNCHANGED <<homeEnv, ro, fs, oserr, off, buf, out, err, exit, fs0, snap>>

\* The name os.makedirs is working on at its current recursion level.
Name(p) == SubSeq(wallet_dir[p], 1, lvl[p])

\* os.makedirs: "if head and tail and not path.exists(head)": recurse on head,
\* otherwise go on to mkdir(name).
Probe(p) ==
  /\ pc[p] = "probe"
  /\ IF Parent(Name(p)) # Root /\ ~Exists(fs, Parent(Name(p)))
       THEN /\ lvl' = [lvl EXCEPT ![p] = @ - 1]
            /\ pc' = pc
       ELSE /\ lvl' = lvl
            /\ pc' = [pc EXCEPT ![p] = "mkdir"]
  /\ UNCHANGED <<homeEnv, ro, fs, wallet_dir, oserr, off, buf, out, err, exit, fs0, snap>>

\* os.makedirs returns from the current recursion level: the caller goes on
\* to its own mkdir, and the outermost call returns to main().
Return(p) ==
  IF lvl[p] = Len(wallet_dir[p])
    THEN /\ pc' = [pc EXCEPT ![p] = "open"]
         /\ lvl' = lvl
    ELSE /\ pc' = [pc EXCEPT ![p] = "mkdir"]
         /\ lvl' = [lvl EXCEPT ![p] = @ + 1]

\* os.makedirs: mkdir(name, mode) succeeds.
MkdirOk(p) ==
  /\ pc[p] = "mkdir"
  /\ MkdirErrors(fs, ro, Name(p)) = {}
  /\ fs' = [fs EXCEPT ![Name(p)] = Dir]
  /\ Return(p)
  /\ UNCHANGED <<homeEnv, ro, wallet_dir, oserr, off, buf, out, err, exit, fs0, snap>>

\* os.makedirs: mkdir(name, mode) raises an OSError, which "except OSError" catches.
MkdirFails(p) ==
  /\ pc[p] = "mkdir"
  /\ \E e \in MkdirErrors(fs, ro, Name(p)) : oserr' = [oserr EXCEPT ![p] = e]
  /\ pc' = [pc EXCEPT ![p] = "isdir"]
  /\ UNCHANGED <<homeEnv, ro, fs, wallet_dir, lvl, off, buf, out, err, exit, fs0, snap>>

catches_everything(level, depth, e) == TRUE

\* Whether an exception raised by makedirs at recursion level `level` of
\* `depth` is caught: the recursive call is wrapped in
\* "except FileExistsError: pass", the outermost call in nothing.
Caught(level, depth, e) == level < depth /\ e = "FileExistsError"

\* os.makedirs: "if not exist_ok or not path.isdir(name): raise".
Handle(p) ==
  /\ pc[p] = "isdir"
  /\ oserr' = [oserr EXCEPT ![p] = ""]
  /\ IF exist_ok /\ IsDir(fs, Name(p))
       THEN Return(p) /\ UNCHANGED <<err, exit, snap>>
       ELSE IF Caught(lvl[p], Len(wallet_dir[p]), oserr[p])
         THEN Return(p) /\ UNCHANGED <<err, exit, snap>>
         ELSE /\ Uncaught(p, oserr[p])
              /\ snap' = [snap EXCEPT ![p] = fs]
              /\ lvl' = lvl
  /\ UNCHANGED <<homeEnv, ro, fs, wallet_dir, off, buf, out, fs0>>

\* The file main() writes.
MarkerPath(p) == wallet_dir[p] \o <<MarkerName>>

\* with open(os.path.join(wallet_dir, "mnemonic.txt"), "w") as f:
Open(p) ==
  /\ pc[p] = "open"
  /\ IF OpenError(fs, ro, MarkerPath(p)) = ""
       THEN /\ fs' = [fs EXCEPT ![MarkerPath(p)] = File(OpenedData(fs, MarkerPath(p), OpenMode))]
            /\ off' = [off EXCEPT ![p] = 0]
            /\ pc' = [pc EXCEPT ![p] = "write"]
            /\ UNCHANGED <<err, exit, snap>>
       ELSE /\ Uncaught(p, OpenError(fs, ro, MarkerPath(p)))
            /\ snap' = [snap EXCEPT ![p] = fs]
            /\ UNCHANGED <<fs, off>>
  /\ UNCHANGED <<homeEnv, ro, wallet_dir, lvl, oserr, buf, out, fs0>>

\* f.write(MNEMONIC): the text goes to the file object's buffer.
Write(p) ==
  /\ pc[p] = "write"
  /\ buf' = [buf EXCEPT ![p] = TextEncode(MNEMONIC)]
  /\ pc' = [pc EXCEPT ![p] = "flush"]
  /\ UNCHANGED <<homeEnv, ro, fs, wallet_dir, lvl, oserr, off, out, err, exit, fs0, snap>>

\* How much of the text the flush has written so far.
Written(p) == Len(TextEncode(MNEMONIC)) - Len(buf[p])

\* Leaving the with block closes f, which flushes the buffer: write(2) takes
\* some of it, possibly not all, and the flush goes on with the rest.
Flush(p) ==
  /\ pc[p] = "flush"
  /\ buf[p] # << >>
  /\ \E k \in { c - Written(p) : c \in { x \in Cuts(TextEncode(MNEMONIC)) : x > Written(p) } } :
       LET data == fs[MarkerPath(p)].data
           at == WriteOffset(data, off[p], OpenMode)
       IN /\ fs' = [fs EXCEPT ![MarkerPath(p)] = File(WriteAt(data, at, SubSeq(buf[p], 1, k)))]
          /\ off' = [off EXCEPT ![p] = at + k]
          /\ buf' = [buf EXCEPT ![p] = SubSeq(@, k + 1, Len(@))]
  /\ UNCHANGED <<homeEnv, ro, wallet_dir, lvl, oserr, pc, out, err, exit, fs0, snap>>

\* write(2) fails while the buffer is flushed (no space left on the device):
\* the OSError leaves the with block and main().
FlushFails(p) ==
  /\ pc[p] = "flush"
  /\ buf[p] # << >>
  /\ Uncaught(p, "OSError")
  /\ snap' = [snap EXCEPT ![p] = fs]
  /\ UNCHANGED <<homeEnv, ro, fs, wallet_dir, lvl, oserr, off, buf, out, fs0>>

\* The buffer is empty: close(2), and main() goes on after the with block.
Close(p) ==
  /\ pc[p] = "flush"
  /\ buf[p] = << >>
  /\ pc' = [pc EXCEPT ![p] = "print2"]
  /\ UNCHANGED <<homeEnv, ro, fs, wallet_dir, lvl, oserr, off, buf, out, err, exit, fs0, snap>>

\* print(f"Created wallet marker at: {wallet_dir}")
Print2(p) ==
  /\ pc[p] = "print2"
  /\ out' = [out EXCEPT ![p] = print(@, Line2(wallet_dir[p]))]
  /\ pc' = [pc EXCEPT ![p] = "print3"]
  /\ UNCHANGED <<homeEnv, ro, fs, wallet_dir, lvl, oserr, off, buf, err, exit, fs0, snap>>

\* print("Mnemonic saved for testing purposes"), and main() returns: exit status 0.
Print3(p) ==
  /\ pc[p] = "print3"
  /\ out' = [out EXCEPT ![p] = print(@, Line3)]
  /\ pc' = [pc EXCEPT ![p] = "done"]
  /\ exit' = [exit EXCEPT ![p] = <<0>>]
  /\ snap' = [snap EXCEPT ![p] = fs]
  /\ UNCHANGED <<homeEnv, ro, fs, wallet_dir, lvl, oserr, off, buf, err, fs0>>

\* ------------------------------------------------------------------ specifications

\* In succession: an invocation starts once the ones before it have terminated.
Turn(p) == \A q \in Procs : q < p => pc[q] \in Final

StartInTurn(p) == Turn(p) /\ Print1(p)

Next ==
  \E p \in Procs :
    \/ StartInTurn(p) \/ Expand(p) \/ Probe(p) \/ MkdirOk(p) \/ MkdirFails(p) \/ Handle(p)
    \/ Open(p) \/ Write(p) \/ Flush(p) \/ FlushFails(p) \/ Close(p)
    \/ Print2(p) \/ Print3(p)

Spec == Init /\ [][Next]_vars

NextConc ==
  \E p \in Procs :
    \/ Print1(p) \/ Expand(p) \/ Probe(p) \/ MkdirOk(p) \/ MkdirFails(p) \/ Handle(p)
    \/ Open(p) \/ Write(p) \/ Flush(p) \/ FlushFails(p) \/ Close(p)
    \/ Print2(p) \/ Print3(p)

SpecConc == Init /\ [][NextConc]_vars

\* ------------------------------------------------------------------ properties

\* <home>/.dig/wallets/test-wallet, the directory the specification names.
HomeWallet == << "home", ".dig", "wallets", "test-wallet" >>

\* mnemonic.txt in dir.
MnemonicFile(dir) == dir \o << "mnemonic.txt" >>

IsPrefix(s, t) == Len(s) <= Len(t) /\ s = SubSeq(t, 1, Len(s))

\* Directory creation must fail from file system f: a component of target is
\* a file, or the first missing component is to be made in a directory
\* without write permission.
CreationFails(f, target) ==
  \E q \in Prefixes(target) :
    \/ IsFile(f, q)
    \/ ~Exists(f, q) /\ IsDir(f, Parent(q)) /\ Parent(q) \in ro

\* A run on its own fails from file system f, in makedirs or in open.
SoloFails(f, target) ==
  \/ CreationFails(f, target)
  \/ IsDir(f, MnemonicFile(target))
  \/ IsFile(f, MnemonicFile(target)) /\ MnemonicFile(target) \in ro
  \/ ~Exists(f, MnemonicFile(target)) /\ IsDir(f, target) /\ target \in ro

\* C1: when the home directory resolves, after every run that completed
\* without error <home>/.dig/wallets/test-wallet/mnemonic.txt is a file that
\* holds exactly the phrase, whatever it held before (nothing, other content,
\* longer content): nothing is kept, appended, added or missing.
C1_ContentFidelity ==
  \A p \in Procs :
    (homeEnv = "set" /\ pc[p] = "done") => snap[p][MnemonicFile(HomeWallet)] = File(MNEMONIC)

\* C1 witness: a run completed where mnemonic.txt held more than the phrase.
C1_Witness ==
  /\ homeEnv = "set"
  /\ pc[1] = "done"
  /\ IsFile(fs0, MnemonicFile(HomeWallet))
  /\ Len(fs0[MnemonicFile(HomeWallet)].data) > Len(MNEMONIC)

\* C2: when the first run has succeeded, the second run in succession fails
\* at most in write(2) (never because the directory or the file exists), and
\* when it succeeds it leaves the file system as the first run left it.
C2_Idempotence ==
  (pc[1] = "done" /\ pc[2] \in Final) =>
    /\ err[2] \in {"", "OSError"}
    /\ pc[2] = "done" => snap[2] = snap[1]

\* C2 witness: both runs succeeded, and the first one had made directories
\* and the file.
C2_Witness ==
  /\ pc[1] = "done" /\ pc[2] = "done"
  /\ ~Exists(fs0, SubSeq(wallet_dir[1], 1, 1))
  /\ IsFile(fs, MnemonicFile(wallet_dir[1]))

\* C3: after a successful run the target directory and all its ancestors are
\* directories, and in every state every entry that existed beforehand, other
\* than mnemonic.txt in the target directory, is as it was.
C3_AutoCreateFrame ==
  /\ \A p \in Procs : pc[p] = "done" =>
       \A q \in Prefixes(expanduser(WALLET_PATH, homeEnv)) : IsDir(snap[p], q)
  /\ \A q \in Paths :
       (Exists(fs0, q) /\ q # MnemonicFile(expanduser(WALLET_PATH, homeEnv))) => fs[q] = fs0[q]

\* C3 witness: a run succeeded from a state where only the first ancestor
\* existed, with a file of somebody else in it.
C3_Witness ==
  /\ pc[1] = "done"
  /\ IsFile(fs0, SubSeq(wallet_dir[1], 1, 1) \o <<SiblingName>>)
  /\ ~Exists(fs0, SubSeq(wallet_dir[1], 1, 2))
  /\ IsDir(fs, wallet_dir[1])

\* C4: when directory creation must fail, no run reaches the open (nor
\* anything after it), mnemonic.txt stays as it was, and a run that has
\* terminated is in the error state with a non-zero exit status.
C4_FailurePropagation ==
  CreationFails(fs0, expanduser(WALLET_PATH, homeEnv)) =>
    /\ \A p \in Procs :
         /\ pc[p] \notin {"open", "write", "flush", "print2", "print3", "done"}
         /\ pc[p] \in Final => (pc[p] = "error" /\ err[p] # "" /\ exit[p] # <<0>> /\ exit[p] # << >>)
    /\ \A q \in Chains : fs[MnemonicFile(q)] = fs0[MnemonicFile(q)]

\* C4 witness: a run ended in error where a component of the path is a file.
C4_Witness ==
  /\ pc[1] = "error"
  /\ \E q \in Prefixes(wallet_dir[1]) : IsFile(fs0, q)

C7_NoMutationWithoutHome ==
  homeEnv = "unset" =>
    /\ fs = fs0
    /\ \A p \in Procs : pc[p] # "done"

\* C8: whenever a run is about to open the file, or holds it open, the
\* target directory and all its ancestors are directories.
C8_DirectoryBeforeFile ==
  \A p \in Procs : pc[p] \in {"open", "write", "flush"} =>
    \A q \in Prefixes(expanduser(WALLET_PATH, homeEnv)) : IsDir(fs, q)

\* C8 witness: a run holds the file open in a directory it had to make.
C8_Witness ==
  /\ pc[1] = "flush"
  /\ ~Exists(fs0, wallet_dir[1])
  /\ IsFile(fs, MnemonicFile(wallet_dir[1]))

\* C9: from the moment a run has truncated the file, as long as it holds it
\* open, and when the write failed, the content is a prefix of the phrase.
C9_PrefixWhileWriting ==
  \A p \in Procs :
    /\ pc[p] \in {"write", "flush"} => IsPrefix(fs[MnemonicFile(wallet_dir[p])].data, MNEMONIC)
    /\ err[p] = "OSError" =>
         /\ IsPrefix(snap[p][MnemonicFile(wallet_dir[p])].data, MNEMONIC)
         /\ snap[p][MnemonicFile(wallet_dir[p])].data # MNEMONIC

\* C9 witness: the write stopped with a proper, non-empty prefix of the
\* phrase in the file, whose previous content is lost.
C9_Witness ==
  /\ pc[1] = "error" /\ err[1] = "OSError"
  /\ IsFile(fs0, MnemonicFile(wallet_dir[1]))
  /\ ~IsPrefix(fs0[MnemonicFile(wallet_dir[1])].data, MNEMONIC)
  /\ fs[MnemonicFile(wallet_dir[1])].data # << >>
  /\ fs[MnemonicFile(wallet_dir[1])].data # MNEMONIC

\* C10: two runs interleaved: a run fails only in write(2) or where a run on
\* its own would fail too, and once both have completed mnemonic.txt holds
\* exactly the phrase.
C10_ConcurrentRuns ==
  /\ \A p \in Procs :
       err[p] \notin {"", "OSError"} => SoloFails(fs0, expanduser(WALLET_PATH, homeEnv))
  /\ (\A p \in Procs : pc[p] = "done") =>
       fs[MnemonicFile(expanduser(WALLET_PATH, homeEnv))] = File(MNEMONIC)

\* C10 witness: both runs are writing, neither has finished, and the file
\* has a hole: one run truncated what the other had written.
C10_Witness ==
  /\ pc[1] = "flush" /\ pc[2] = "flush"
  /\ buf[1] # << >> /\ buf[2] # << >>
  /\ ~Exists(fs0, SubSeq(wallet_dir[1], 1, 1))
  /\ \E i \in 1..Len(fs[MnemonicFile(wallet_dir[1])].data) :
       fs[MnemonicFile(wallet_dir[1])].data[i] = NUL

====
